---------------------------- MODULE Spec2Model ----------------------------
(***************************************************************************)
(* A model of src/bot.py: the per-tick decision engine (Bot.get_next_move) *)
(* with its helpers: the world classifier, the threat monitor, the target  *)
(* selector, the sacrifice arbiter and the bounded A* pathfinder.          *)
(*                                                                         *)
(* Spec       : a Bot instance receiving a sequence of snapshots.          *)
(* SpecAstar  : _astar_next_step applied to drawn inputs, and followed.    *)
(* SpecArbiter: _choose_sacrifice_target applied to drawn inputs.          *)
(* SpecSafest : _pick_safest_spore_for_new_spawner applied to drawn inputs.*)
(* SpecTargets: the target choice of the movement loop, on a long strip.   *)
(* SpecPick   : _pick_unvisited_target applied to drawn inputs.            *)
(* SpecLoop   : the loops of _astar_next_step, pass by pass.               *)
(* SpecWide   : a Bot instance on a map wider than the exploration window. *)
(***************************************************************************)
EXTENDS Integers, Sequences, FiniteSets, TLC

VARIABLES
    visited,                    \* Bot.visited
    did_initial_spawner_burst,  \* Bot._did_initial_spawner_burst
    last_panic_spawner_tick,    \* Bot._last_panic_spawner_tick
    game_message,               \* the snapshot of the get_next_move call in progress
    actions,                    \* the list that call is returning
    tier,                       \* the place that call returns from ("none": no call)
    sacrificial_spore_id,       \* that call's local of this name (NoId for None)
    calls,                      \* number of get_next_move calls so far
    tick0_seen,                 \* history: some call so far had tick = 0
    observed,                   \* history: the tiles owned spores stood on in the snapshots so far
    panic_ticks,                \* history: the ticks of the calls that returned from the panic tier
    probe                       \* a helper function's inputs and result

vars == <<visited, did_initial_spawner_burst, last_panic_spawner_tick,
          game_message, actions, tier, sacrificial_spore_id, calls, tick0_seen,
          observed, panic_ticks, probe>>

engine_vars == <<visited, did_initial_spawner_burst, last_panic_spawner_tick,
                 game_message, actions, tier, sacrificial_spore_id, calls, tick0_seen,
                 observed, panic_ticks>>

---------------------------------------------------------------------------
(* Bounds of the model *)

\* map width and height of the snapshots
W == 3
H == 3
\* the most spores of the team in a snapshot that places them freely
MaxUnits == 2
\* the most get_next_move calls in a behaviour
MaxCalls == 2
\* the most blocked tiles drawn besides the goal's neighbourhood (SpecAstar)
MaxExtraBlocked == 1

(* Program constants (Bot.__init__ and literals) *)
max_spores == 25
base_spawn_biomass == 4
spawn_biomass_cap == 256
spawn_biomass_period == 150
surrounded_threshold == 3
neutral_clear_radius == 8
attack_spawner_radius == 12
enemy_threat_radius == 3
panic_spawner_cooldown == 30
panic_spawner_limit == 3
astar_max_expansions == 4000
search_radius == 25
\* 10**9, the "no value yet" number of the code
Unreached == 1000000000

\* Python's None, for a position or a direction
None == <<>>
\* Python's None, for a spore id (ids are positive in the snapshots)
NoId == 0

yourTeamId == "me"
neutralTeamId == "neutral"
enemyTeamId == "enemy"

---------------------------------------------------------------------------
(* Grid helpers *)

Tiles == (0..(W - 1)) \X (0..(H - 1))

Abs(n) == IF n < 0 THEN -n ELSE n

Min2(a, b) == IF a <= b THEN a ELSE b
Max2(a, b) == IF a >= b THEN a ELSE b

_manhattan(ax, ay, bx, by) == Abs(ax - bx) + Abs(ay - by)

Manhattan(p, q) == _manhattan(p[1], p[2], q[1], q[2])

_in_bounds(gm, x, y) == 0 <= x /\ x < gm.width /\ 0 <= y /\ y < gm.height

\* the 4 neighbours in the code's order, each <<nx, ny, dvec>>
_adjacent_positions(x, y) ==
    << <<x, y - 1, <<0, -1>> >>,
       <<x, y + 1, <<0, 1>> >>,
       <<x - 1, y, <<-1, 0>> >>,
       <<x + 1, y, <<1, 0>> >> >>

---------------------------------------------------------------------------
(* A* pathfinding *)

_heuristic(ax, ay, bx, by) == Abs(ax - bx) + Abs(ay - by)

\* Python's tuple order on heap entries <<f, g, x, y>>
HeapLess(a, b) ==
    \/ a[1] < b[1]
    \/ a[1] = b[1] /\ a[2] < b[2]
    \/ a[1] = b[1] /\ a[2] = b[2] /\ a[3] < b[3]
    \/ a[1] = b[1] /\ a[2] = b[2] /\ a[3] = b[3] /\ a[4] < b[4]

\* mutant of HeapTop: the greatest entry is popped
HeapTopGreatest(open_heap) == CHOOSE t \in open_heap : \A u \in open_heap \ {t} : HeapLess(u, t)

\* heapq.heappop: the least entry (no entry is pushed twice: a push needs a
\* strictly smaller g for its tile)
HeapTop(open_heap) == CHOOSE t \in open_heap : \A u \in open_heap \ {t} : HeapLess(t, u)

GetOr(f, k, default) == IF k \in DOMAIN f THEN f[k] ELSE default

\* mutant of AstarSkipsNeighbour: the blocked set is not looked at
AstarSkipsNeighbourBoundsOnly(gm, n, goal, blocked, allow_goal_even_if_blocked) ==
    ~_in_bounds(gm, n[1], n[2])

\* mutant of AstarSkipsNeighbour: the allowance lets every blocked tile through
AstarSkipsNeighbourAllowAny(gm, n, goal, blocked, allow_goal_even_if_blocked) ==
    \/ ~_in_bounds(gm, n[1], n[2])
    \/ /\ n \in blocked
       /\ ~allow_goal_even_if_blocked

\* the neighbour test of the expansion loop: TRUE when the neighbour is skipped
AstarSkipsNeighbour(gm, n, goal, blocked, allow_goal_even_if_blocked) ==
    \/ ~_in_bounds(gm, n[1], n[2])
    \/ /\ n \in blocked
       /\ ~(allow_goal_even_if_blocked /\ n = goal)

\* one pass of the for loop over _adjacent_positions(x, y), from neighbour i on
RECURSIVE AstarRelax(_, _, _, _, _, _, _, _)
AstarRelax(gm, s, i, g, xy, goal, blocked, allow_goal_even_if_blocked) ==
    IF i > 4 THEN s
    ELSE LET adj == _adjacent_positions(xy[1], xy[2])[i]
             key == <<adj[1], adj[2]>>
             tentative_g == g + 1
             s2 == IF AstarSkipsNeighbour(gm, key, goal, blocked, allow_goal_even_if_blocked)
                   THEN s
                   ELSE IF tentative_g < GetOr(s.g_score, key, Unreached)
                   THEN [s EXCEPT
                           !.came_from = (key :> xy) @@ s.came_from,
                           !.g_score = (key :> tentative_g) @@ s.g_score,
                           !.open_heap = s.open_heap \cup
                               {<<tentative_g + _heuristic(key[1], key[2], goal[1], goal[2]),
                                  tentative_g, key[1], key[2]>>}]
                   ELSE s
         IN AstarRelax(gm, s2, i + 1, g, xy, goal, blocked, allow_goal_even_if_blocked)

\* mutant of AstarBacktrack: the walk back is left out
AstarBacktrackNoWalk(came_from, cur, start) == cur

\* the walk back along came_from, to the node next to start
RECURSIVE AstarBacktrack(_, _, _)
AstarBacktrack(came_from, cur, start) ==
    LET prev == GetOr(came_from, cur, None)
    IN IF prev # None /\ prev # start
       THEN AstarBacktrack(came_from, prev, start)
       ELSE cur

\* what a call hands back: the returned direction (or None) with the number
\* of expansions made, the tiles expanded and the predecessor map
AstarResult(dir, s) ==
    [dir |-> dir, expansions |-> s.expansions, expanded |-> s.expanded,
     came_from |-> s.came_from]

\* the condition of the while loop, negated
AstarLoopExits(s) == s.open_heap = {} \/ ~(s.expansions < astar_max_expansions)

\* mutant of AstarExpand: the expansions are not counted
AstarExpandNoCount(gm, s, goal, blocked, allow_goal_even_if_blocked) ==
    LET top == HeapTop(s.open_heap)
        xy == <<top[3], top[4]>>
    IN AstarRelax(gm,
                  [s EXCEPT !.open_heap = s.open_heap \ {top},
                            !.expanded = s.expanded \cup {xy}],
                  1, top[2], xy, goal, blocked, allow_goal_even_if_blocked)

\* one pass of the while loop that pops a tile other than the goal
AstarExpand(gm, s, goal, blocked, allow_goal_even_if_blocked) ==
    LET top == HeapTop(s.open_heap)
        xy == <<top[3], top[4]>>
    IN AstarRelax(gm,
                  [s EXCEPT !.open_heap = s.open_heap \ {top},
                            !.expansions = s.expansions + 1,
                            !.expanded = s.expanded \cup {xy}],
                  1, top[2], xy, goal, blocked, allow_goal_even_if_blocked)

\* the while loop
RECURSIVE AstarLoop(_, _, _, _, _, _)
AstarLoop(gm, s, start, goal, blocked, allow_goal_even_if_blocked) ==
    IF AstarLoopExits(s)
    THEN AstarResult(None, s)
    ELSE LET top == HeapTop(s.open_heap)
             xy == <<top[3], top[4]>>
         IN IF xy = goal
            THEN LET cur == AstarBacktrack(s.came_from, goal, start)
                 IN AstarResult(<<cur[1] - start[1], cur[2] - start[2]>>, s)
            ELSE AstarLoop(gm,
                           AstarExpand(gm, s, goal, blocked, allow_goal_even_if_blocked),
                           start, goal, blocked, allow_goal_even_if_blocked)

\* mutant of AstarEarlyReturn: a blocked goal is searched for all the same
AstarEarlyReturnNoBlockedCheck(gm, start, goal, blocked, allow_goal_even_if_blocked) ==
    \/ start = goal
    \/ ~_in_bounds(gm, goal[1], goal[2])

\* the three early returns of _astar_next_step
AstarEarlyReturn(gm, start, goal, blocked, allow_goal_even_if_blocked) ==
    \/ start = goal
    \/ ~_in_bounds(gm, goal[1], goal[2])
    \/ goal \in blocked /\ ~allow_goal_even_if_blocked

\* the state the loop is entered with
AstarInitial(start, goal) ==
    [open_heap |-> {<<_heuristic(start[1], start[2], goal[1], goal[2]),
                      0, start[1], start[2]>>},
     came_from |-> <<>>,
     g_score |-> (start :> 0),
     expansions |-> 0,
     expanded |-> {}]

AstarSearch(gm, start, goal, blocked, allow_goal_even_if_blocked) ==
    IF AstarEarlyReturn(gm, start, goal, blocked, allow_goal_even_if_blocked)
    THEN AstarResult(None, AstarInitial(start, goal))
    ELSE AstarLoop(gm, AstarInitial(start, goal),
                   start, goal, blocked, allow_goal_even_if_blocked)

_astar_next_step(gm, start, goal, blocked, allow_goal_even_if_blocked) ==
    AstarSearch(gm, start, goal, blocked, allow_goal_even_if_blocked).dir

---------------------------------------------------------------------------
(* World classifier: a snapshot gm is a record                             *)
(*   tick, width, height, nutrientGrid  (world.map)                        *)
(*   spores, spawners                   (world.spores, world.spawners)     *)
(*   mySpores, mySpawners, nutrients    (world.teamInfos[yourTeamId])      *)
(* a spore is [id, teamId, position, biomass], a spawner [id, teamId,      *)
(* position]; mySpores and mySpawners are lists, the world's are sets.     *)

_neutral_spore_positions(gm) ==
    {sp.position : sp \in {s \in gm.spores : s.teamId = neutralTeamId}}

\* the dict (x, y) -> biomass, as the set of its items (one neutral per tile)
_neutral_spore_biomass_by_pos(gm) ==
    {<<sp.position, sp.biomass>> : sp \in {s \in gm.spores : s.teamId = neutralTeamId}}

\* neutral_biomass.get(pos, 10**9)
NeutralBiomassGet(neutral_biomass, pos) ==
    IF \E e \in neutral_biomass : e[1] = pos
    THEN (CHOOSE e \in neutral_biomass : e[1] = pos)[2]
    ELSE Unreached

_enemy_spore_positions(gm) ==
    {sp.position : sp \in {s \in gm.spores :
                              s.teamId # yourTeamId /\ s.teamId # neutralTeamId}}

_enemy_spawner_positions(gm) ==
    {spw.position : spw \in {s \in gm.spawners :
                                s.teamId # yourTeamId /\ s.teamId # neutralTeamId}}

BlockedForPath(gm) ==
    _neutral_spore_positions(gm) \cup _enemy_spore_positions(gm)
        \cup _enemy_spawner_positions(gm)

SeqRange(s) == {s[i] : i \in DOMAIN s}

\* mutant of _update_visited: the spores of every team are marked
UpdateVisitedAnySpore(v, gm) == v \cup {sp.position : sp \in gm.spores}

_update_visited(v, gm) == v \cup {sp.position : sp \in SeqRange(gm.mySpores)}

---------------------------------------------------------------------------
(* Production cost *)

RECURSIVE Pow2(_)
Pow2(n) == IF n <= 0 THEN 1 ELSE 2 * Pow2(n - 1)

_current_spawn_biomass(tick) ==
    Min2(base_spawn_biomass * Pow2(tick \div spawn_biomass_period), spawn_biomass_cap)

---------------------------------------------------------------------------
(* Threat monitor *)

_enemy_nearby(gm, enemy_pos) ==
    /\ enemy_pos # {}
    /\ gm.mySpores # <<>>
    /\ \E i \in DOMAIN gm.mySpores : \E e \in enemy_pos :
          Manhattan(gm.mySpores[i].position, e) <= enemy_threat_radius

\* Python's max(list, key), given the list of keys: the index of the first
\* element with the greatest key
FirstMaxIndex(keys) ==
    CHOOSE i \in DOMAIN keys :
        /\ \A j \in DOMAIN keys : keys[j] <= keys[i]
        /\ \A j \in 1..(i - 1) : keys[j] < keys[i]

\* Python's min(list, key), and the strict < scans that keep the first least
\* element: the index of the first element with the least key
FirstMinIndex(keys) ==
    CHOOSE i \in DOMAIN keys :
        /\ \A j \in DOMAIN keys : keys[j] >= keys[i]
        /\ \A j \in 1..(i - 1) : keys[j] > keys[i]

MinDistToEnemy(p, enemy_pos) ==
    CHOOSE d \in {Manhattan(p, e) : e \in enemy_pos} :
        \A e \in enemy_pos : d <= Manhattan(p, e)

\* the tuple key (x, y) of max(), as one number (x, y are below the width, height)
LexKey(gm, p) == p[1] * (gm.height + 1) + p[2]

\* the index in mySpores of the returned spore, 0 for None
_pick_safest_spore_for_new_spawner(gm, enemy_pos) ==
    IF gm.mySpores = <<>> THEN 0
    ELSE IF enemy_pos = {}
    THEN FirstMaxIndex([i \in DOMAIN gm.mySpores |->
                            LexKey(gm, gm.mySpores[i].position)])
    ELSE FirstMaxIndex([i \in DOMAIN gm.mySpores |->
                            MinDistToEnemy(gm.mySpores[i].position, enemy_pos)])

---------------------------------------------------------------------------
(* Target selection *)

\* the adjacent neutral tiles of a spore with the direction into each, in the
\* order of _adjacent_positions: a list of <<tile, dvec>>
RECURSIVE SurroundedFrom(_, _, _, _)
SurroundedFrom(gm, adj, neutral_pos, i) ==
    IF i > Len(adj) THEN <<>>
    ELSE LET n == <<adj[i][1], adj[i][2]>>
             rest == SurroundedFrom(gm, adj, neutral_pos, i + 1)
         IN IF _in_bounds(gm, n[1], n[2]) /\ n \in neutral_pos
            THEN << <<n, adj[i][3]>> >> \o rest
            ELSE rest

_is_surrounded_by_neutrals(gm, spore, neutral_pos) ==
    SurroundedFrom(gm, _adjacent_positions(spore.position[1], spore.position[2]),
                   neutral_pos, 1)

\* the positions a nearest-in-radius scan over a Python set can return: the
\* set's iteration order is not fixed, and the first nearest one seen is kept
NearestInRadius(start, positions, radius) ==
    LET near == {p \in positions : Manhattan(p, start) <= radius}
    IN IF near = {} THEN {None}
       ELSE {p \in near : \A q \in near : Manhattan(p, start) <= Manhattan(q, start)}

_nearest_neutral_in_radius(start, neutral_pos, radius) ==
    NearestInRadius(start, neutral_pos, radius)

_nearest_enemy_spawner_in_radius(start, enemy_spawner_pos, radius) ==
    NearestInRadius(start, enemy_spawner_pos, radius)

\* the filters of both scans of _pick_unvisited_target
TargetEligible(v, blocked, start, t) ==
    /\ t \notin v
    /\ t \notin blocked
    /\ Manhattan(t, start) # 0

TargetScore(gm, start, t) == gm.nutrientGrid[t] * 3 - Manhattan(t, start)

\* mutant of TargetWindow: the whole map is scanned
TargetWindowWholeMap(gm, start, radius) ==
    (0..(gm.width - 1)) \X (0..(gm.height - 1))

\* the window of the first scan, clipped to the map
TargetWindow(gm, start, radius) ==
    {t \in (Max2(0, start[1] - radius)..Min2(gm.width - 1, start[1] + radius))
            \X (Max2(0, start[2] - radius)..Min2(gm.height - 1, start[2] + radius)) : TRUE}

\* the scan keeps the first tile of the greatest score, rows by y then x
WindowBest(gm, start, cand) ==
    CHOOSE t \in cand :
        \A u \in cand \ {t} :
            \/ TargetScore(gm, start, u) < TargetScore(gm, start, t)
            \/ /\ TargetScore(gm, start, u) = TargetScore(gm, start, t)
               /\ (t[2] < u[2] \/ (t[2] = u[2] /\ t[1] < u[1]))

\* what _pick_unvisited_target can return: the window's best tile, or, when the
\* window has none, whatever the random samples over the map give (any
\* eligible tile, or None when every sample misses)
_pick_unvisited_target(gm, v, start, blocked, radius) ==
    LET cand == {t \in TargetWindow(gm, start, radius) : TargetEligible(v, blocked, start, t)}
        map == (0..(gm.width - 1)) \X (0..(gm.height - 1))
        hits == {t \in map : TargetEligible(v, blocked, start, t)}
    IN IF cand # {} THEN {WindowBest(gm, start, cand)}
       ELSE hits \cup (IF hits # map THEN {None} ELSE {})

---------------------------------------------------------------------------
(* Sacrifice arbiter *)

\* mutant of CheapestAdjacent: the first adjacent neutral, whatever its biomass
CheapestAdjacentFirst(adj, neutral_biomass) == adj[1]

\* the cheapest adjacent neutral of a surrounded spore: the first of the least
\* recorded biomass
CheapestAdjacent(adj, neutral_biomass) ==
    adj[FirstMinIndex([i \in DOMAIN adj |-> NeutralBiomassGet(neutral_biomass, adj[i][1])])]

\* the candidates list: the indexes of the spores with enough adjacent neutrals
SacrificeCandidate(gm, sp, neutral_pos) ==
    ~(Len(_is_surrounded_by_neutrals(gm, sp, neutral_pos)) < surrounded_threshold)

RECURSIVE CandidatesFrom(_, _, _, _)
CandidatesFrom(gm, my_spores, neutral_pos, i) ==
    IF i > Len(my_spores) THEN <<>>
    ELSE (IF SacrificeCandidate(gm, my_spores[i], neutral_pos) THEN <<i>> ELSE <<>>)
            \o CandidatesFrom(gm, my_spores, neutral_pos, i + 1)

\* mutant of SacrificePick: the first candidate, whatever its biomass
SacrificePickFirst(my_spores, candidates) == candidates[1]

\* min(candidates, key=biomass): an index of my_spores
SacrificePick(my_spores, candidates) ==
    candidates[FirstMinIndex([i \in DOMAIN candidates |-> my_spores[candidates[i]].biomass])]

\* the returned pair: the spore id (NoId for None) and the move (None for None)
_choose_sacrifice_target(gm, my_spores, neutral_pos, neutral_biomass) ==
    LET candidates == CandidatesFrom(gm, my_spores, neutral_pos, 1)
    IN IF candidates = <<>>
       THEN [id |-> NoId, move |-> None]
       ELSE LET sp == my_spores[SacrificePick(my_spores, candidates)]
                best == CheapestAdjacent(_is_surrounded_by_neutrals(gm, sp, neutral_pos),
                                         neutral_biomass)
            IN [id |-> sp.id,
                move |-> [type |-> "SporeMoveAction", sporeId |-> sp.id,
                          direction |-> best[2]]]

---------------------------------------------------------------------------
(* get_next_move *)

SporeCreateSpawnerAction(sporeId) ==
    [type |-> "SporeCreateSpawnerAction", sporeId |-> sporeId]

SpawnerProduceSporeAction(spawnerId, biomass) ==
    [type |-> "SpawnerProduceSporeAction", spawnerId |-> spawnerId, biomass |-> biomass]

SporeMoveAction(sporeId, direction) ==
    [type |-> "SporeMoveAction", sporeId |-> sporeId, direction |-> direction]

SporeMoveToAction(sporeId, position) ==
    [type |-> "SporeMoveToAction", sporeId |-> sporeId, position |-> position]

\* tick 0: one create-spawner action per spore of the team
RECURSIVE BurstActions(_, _)
BurstActions(my_spores, i) ==
    IF i > Len(my_spores) THEN <<>>
    ELSE <<SporeCreateSpawnerAction(my_spores[i].id)>> \o BurstActions(my_spores, i + 1)

\* mutant of InitialBurstFires: the flag is not looked at
InitialBurstFiresEveryTick0(gm, did_burst) == gm.tick = 0

InitialBurstFires(gm, did_burst) == gm.tick = 0 /\ ~did_burst

\* mutant of PanicFires: the structure cap is not looked at
PanicFiresNoCap(gm, last_panic, enemy_pos) ==
    /\ _enemy_nearby(gm, enemy_pos)
    /\ gm.tick - last_panic >= panic_spawner_cooldown
    /\ _pick_safest_spore_for_new_spawner(gm, enemy_pos) # 0

\* mutant of PanicFires: the cooldown is not looked at
PanicFiresNoCooldown(gm, last_panic, enemy_pos) ==
    /\ _enemy_nearby(gm, enemy_pos)
    /\ _pick_safest_spore_for_new_spawner(gm, enemy_pos) # 0
    /\ Len(gm.mySpawners) < panic_spawner_limit

\* the panic tier's two nested conditions
PanicFires(gm, last_panic, enemy_pos) ==
    /\ _enemy_nearby(gm, enemy_pos)
    /\ gm.tick - last_panic >= panic_spawner_cooldown
    /\ _pick_safest_spore_for_new_spawner(gm, enemy_pos) # 0
    /\ Len(gm.mySpawners) < panic_spawner_limit

BootstrapFires(gm) == Len(gm.mySpawners) = 0 /\ Len(gm.mySpores) > 0

\* mutant of BootstrapActions: the last spore instead of the first
BootstrapActionsLast(gm) ==
    <<SporeCreateSpawnerAction(gm.mySpores[Len(gm.mySpores)].id)>>

BootstrapActions(gm) == <<SporeCreateSpawnerAction(gm.mySpores[1].id)>>

\* mutant of ProduceAffordable: the nutrient stock is not looked at
ProduceAffordableNoStock(gm, spawn_biomass) == Len(gm.mySpores) < max_spores

\* produce_every_tick is True
ProduceAffordable(gm, spawn_biomass) ==
    Len(gm.mySpores) < max_spores /\ gm.nutrients >= spawn_biomass

ProduceActions(gm) ==
    IF Len(gm.mySpawners) > 0
    THEN LET spawn_biomass == _current_spawn_biomass(gm.tick)
         IN IF ProduceAffordable(gm, spawn_biomass)
            THEN <<SpawnerProduceSporeAction(gm.mySpawners[1].id, spawn_biomass)>>
            ELSE <<>>
    ELSE <<>>

\* the values any_unvisited_target can end the first loop with
AnyUnvisitedTarget(gm, v, blocked) ==
    {b \in BOOLEAN :
        IF b
        THEN \E i \in DOMAIN gm.mySpores :
                \E t \in _pick_unvisited_target(gm, v, gm.mySpores[i].position,
                                                blocked, search_radius) : t # None
        ELSE \A i \in DOMAIN gm.mySpores :
                None \in _pick_unvisited_target(gm, v, gm.mySpores[i].position,
                                                blocked, search_radius)}

\* mutant of UnitTargets: exploration comes before the attack on a spawner
UnitTargetsExploreFirst(gm, v, sp, blocked, neutral_pos, enemy_spawner_pos) ==
    LET spawner_targets ==
            _nearest_enemy_spawner_in_radius(sp.position, enemy_spawner_pos,
                                             attack_spawner_radius)
        explore == _pick_unvisited_target(gm, v, sp.position, blocked, search_radius)
        nearby_neutral ==
            _nearest_neutral_in_radius(sp.position, neutral_pos, neutral_clear_radius)
        random_tiles == (0..(gm.width - 1)) \X (0..(gm.height - 1))
        fallback == IF nearby_neutral # {None} THEN nearby_neutral ELSE random_tiles
    IN {[target |-> t, allow_goal_blocked |-> (t \in neutral_pos)] : t \in explore \ {None}}
       \cup (IF None \notin explore THEN {}
             ELSE IF spawner_targets # {None}
             THEN {[target |-> t, allow_goal_blocked |-> TRUE] : t \in spawner_targets}
             ELSE {[target |-> t, allow_goal_blocked |-> (t \in neutral_pos)] :
                     t \in fallback})

\* the (target, allow_goal_blocked) pairs the movement loop can reach for a spore
UnitTargets(gm, v, sp, blocked, neutral_pos, enemy_spawner_pos) ==
    LET spawner_targets ==
            _nearest_enemy_spawner_in_radius(sp.position, enemy_spawner_pos,
                                             attack_spawner_radius)
        explore == _pick_unvisited_target(gm, v, sp.position, blocked, search_radius)
        nearby_neutral ==
            _nearest_neutral_in_radius(sp.position, neutral_pos, neutral_clear_radius)
        random_tiles == (0..(gm.width - 1)) \X (0..(gm.height - 1))
        fallback == IF nearby_neutral # {None} THEN nearby_neutral ELSE random_tiles
        other == (explore \ {None}) \cup (IF None \in explore THEN fallback ELSE {})
    IN IF spawner_targets # {None}
       THEN {[target |-> t, allow_goal_blocked |-> TRUE] : t \in spawner_targets}
       ELSE {[target |-> t, allow_goal_blocked |-> (t \in neutral_pos)] : t \in other}

\* the action of a spore that is not the sacrificial one, for a chosen target
UnitMove(gm, sp, blocked, tg) ==
    LET next_dir == _astar_next_step(gm, sp.position, tg.target, blocked,
                                     tg.allow_goal_blocked)
    IN IF next_dir = None
       THEN SporeMoveToAction(sp.id, tg.target)
       ELSE SporeMoveAction(sp.id, next_dir)

\* mutant of UnitActions: the sacrificial spore goes on to pathfinding too
UnitActionsNoContinue(gm, v, sp, blocked, neutral_pos, enemy_spawner_pos, sac) ==
    {(IF sac.id # NoId /\ sp.id = sac.id THEN <<sac.move>> ELSE <<>>)
        \o <<UnitMove(gm, sp, blocked, tg)>> :
            tg \in UnitTargets(gm, v, sp, blocked, neutral_pos, enemy_spawner_pos)}

\* mutant of UnitActions: a spore with no path gets no action
UnitActionsDropNoPath(gm, v, sp, blocked, neutral_pos, enemy_spawner_pos, sac) ==
    IF sac.id # NoId /\ sp.id = sac.id
    THEN {<<sac.move>>}
    ELSE {IF _astar_next_step(gm, sp.position, tg.target, blocked,
                              tg.allow_goal_blocked) = None
          THEN <<>>
          ELSE <<UnitMove(gm, sp, blocked, tg)>> :
            tg \in UnitTargets(gm, v, sp, blocked, neutral_pos, enemy_spawner_pos)}

\* the list of one spore's actions in the movement loop: the sacrificial move
\* and nothing else for the sacrificial spore
UnitActions(gm, v, sp, blocked, neutral_pos, enemy_spawner_pos, sac) ==
    IF sac.id # NoId /\ sp.id = sac.id
    THEN {<<sac.move>>}
    ELSE {<<UnitMove(gm, sp, blocked, tg)>> :
            tg \in UnitTargets(gm, v, sp, blocked, neutral_pos, enemy_spawner_pos)}

\* the lists the movement loop can append, from spore i on
RECURSIVE MovementActions(_, _, _, _, _, _, _)
MovementActions(gm, v, blocked, neutral_pos, enemy_spawner_pos, sac, i) ==
    IF i > Len(gm.mySpores) THEN {<<>>}
    ELSE {a \o rest :
            a \in UnitActions(gm, v, gm.mySpores[i], blocked, neutral_pos,
                              enemy_spawner_pos, sac),
            rest \in MovementActions(gm, v, blocked, neutral_pos, enemy_spawner_pos,
                                     sac, i + 1)}

\* the sacrifice-or-explore decision
SacrificeDecision(gm, any_unvisited_target, neutral_pos, neutral_biomass) ==
    IF any_unvisited_target
    THEN [id |-> NoId, move |-> None]
    ELSE _choose_sacrifice_target(gm, gm.mySpores, neutral_pos, neutral_biomass)

\* what a call can return and leave behind, given the visited set as updated
\* at its start: records [actions, tier, sac, did_burst, last_panic]
GetNextMoveOutcomes(gm, v, did_burst, last_panic) ==
    LET neutral_pos == _neutral_spore_positions(gm)
        neutral_biomass == _neutral_spore_biomass_by_pos(gm)
        enemy_pos == _enemy_spore_positions(gm)
        enemy_spawner_pos == _enemy_spawner_positions(gm)
        blocked_for_path == BlockedForPath(gm)
    IN IF InitialBurstFires(gm, did_burst)
       THEN {[actions |-> BurstActions(gm.mySpores, 1), tier |-> "burst", sac |-> NoId,
              did_burst |-> TRUE, last_panic |-> last_panic]}
       ELSE IF PanicFires(gm, last_panic, enemy_pos)
       THEN {[actions |-> <<SporeCreateSpawnerAction(
                               gm.mySpores[_pick_safest_spore_for_new_spawner(gm, enemy_pos)].id)>>,
              tier |-> "panic", sac |-> NoId,
              did_burst |-> did_burst, last_panic |-> gm.tick]}
       ELSE IF BootstrapFires(gm)
       THEN {[actions |-> BootstrapActions(gm),
              tier |-> "bootstrap", sac |-> NoId,
              did_burst |-> did_burst, last_panic |-> last_panic]}
       ELSE {[actions |-> ProduceActions(gm) \o m, tier |-> "movement", sac |-> d.id,
              did_burst |-> did_burst, last_panic |-> last_panic] :
                <<d, m>> \in
                  UNION {{<<sd, mv>> :
                            mv \in MovementActions(gm, v, blocked_for_path, neutral_pos,
                                                   enemy_spawner_pos, sd, 1)} :
                         sd \in {SacrificeDecision(gm, b, neutral_pos, neutral_biomass) :
                                   b \in AnyUnvisitedTarget(gm, v, blocked_for_path)}}}

---------------------------------------------------------------------------
(* The snapshots the engine is given *)

\* world.map.nutrientGrid[y][x]
NutrientGrid == [t \in Tiles |-> (2 * t[1] + t[2]) % 3]

\* Terrains: rows y = 0.. of cells x = 0..; n > 0 is a neutral spore of
\* biomass n, -1 an enemy spore, -2 an enemy spawner, 0 a free tile. Tiles
\* outside a matrix are free.
TerrainEmpty == << <<0, 0, 0>>, <<0, 0, 0>>, <<0, 0, 0>> >>
TerrainRing == << <<5, 2, 7>>, <<3, 0, 4>>, <<6, 1, 8>> >>
TerrainPockets == << <<3, -2, 4>>, <<0, 2, 0>>, <<5, -2, 1>> >>
TerrainPartial == << <<0, 4, 0>>, <<2, 0, 3>>, <<0, 0, 0>> >>
TerrainWall == << <<0, 3, -2>>, <<0, 3, 0>>, <<0, 0, 0>> >>
TerrainThreat == << <<0, 0, 0>>, <<0, 0, 0>>, <<0, 0, -1>> >>
TerrainSpawner == << <<0, 0, 0>>, <<0, 0, 0>>, <<0, 0, -2>> >>
TerrainSealed == << <<0, 2, -2>>, <<3, 0, -2>>, <<-2, 1, -2>> >>

Cell(m, t) ==
    IF t[2] + 1 <= Len(m) /\ t[1] + 1 <= Len(m[t[2] + 1])
    THEN m[t[2] + 1][t[1] + 1]
    ELSE 0

\* the tiles a terrain matrix covers, where the spores of a snapshot are placed
Footprint(m) == {t \in Tiles : t[2] + 1 <= Len(m) /\ t[1] + 1 <= Len(m[t[2] + 1])}

FreeTiles(m) == {t \in Footprint(m) : Cell(m, t) = 0}

OtherSpores(m) ==
    {[id |-> 100 + 10 * t[1] + t[2],
      teamId |-> IF Cell(m, t) > 0 THEN neutralTeamId ELSE enemyTeamId,
      position |-> t,
      biomass |-> IF Cell(m, t) > 0 THEN Cell(m, t) ELSE 6] :
        t \in {u \in Tiles : Cell(m, u) > 0 \/ Cell(m, u) = -1}}

EnemySpawners(m) ==
    {[id |-> 200 + 10 * t[1] + t[2], teamId |-> enemyTeamId, position |-> t] :
        t \in {u \in Tiles : Cell(m, u) = -2}}

\* the team's spores, from a list of <<position, biomass>>: ids 1, 2, ...
MySpores(units) ==
    [i \in 1..Len(units) |->
        [id |-> i, teamId |-> yourTeamId, position |-> units[i][1],
         biomass |-> units[i][2]]]

MySpawners(n) ==
    [j \in 1..n |-> [id |-> 50 + j, teamId |-> yourTeamId, position |-> <<0, 0>>]]

Snapshot(tick, nutrients, nSpawners, units, m) ==
    [tick |-> tick, width |-> W, height |-> H, nutrientGrid |-> NutrientGrid,
     spores |-> SeqRange(MySpores(units)) \cup OtherSpores(m),
     spawners |-> SeqRange(MySpawners(nSpawners)) \cup EnemySpawners(m),
     mySpores |-> MySpores(units),
     mySpawners |-> MySpawners(nSpawners),
     nutrients |-> nutrients]

\* lists of up to MaxUnits spores on distinct tiles of `free`, the biomass of
\* the i-th taken from `profile`
RECURSIVE Placements(_, _, _)
Placements(free, profile, n) ==
    IF n = 0 THEN {<<>>}
    ELSE LET shorter == Placements(free, profile, n - 1)
         IN shorter \cup
            {Append(u, <<t, profile[((n - 1) % Len(profile)) + 1]>>) :
                <<u, t>> \in {<<u1, t1>> \in {v \in shorter : Len(v) = n - 1} \X free :
                                \A i \in 1..(n - 1) : u1[i][1] # t1}}

\* the tile opposite t through the middle of the map
Mirror(t) == <<W - 1 - t[1], H - 1 - t[2]>>

\* one spore on any free tile, or two on opposite free tiles
SpreadPlacements(m, profile) ==
    {<< <<t, profile[1]>> >> : t \in FreeTiles(m)} \cup
    {<< <<t, profile[1]>>, <<Mirror(t), profile[2]>> >> :
        t \in {u \in FreeTiles(m) : Cell(m, Mirror(u)) = 0 /\ Mirror(u) # u}}

\* n spores on one tile
Crowd(n, t) == [i \in 1..n |-> <<t, 5>>]

\* <<tick, nutrients>> around the steps of the production cost
EconPoints ==
    {<<0, 3>>, <<0, 4>>, <<149, 4>>, <<150, 7>>, <<150, 8>>, <<900, 255>>,
     <<1050, 255>>, <<1050, 256>>}

BiomassProfiles == {<<8, 5>>, <<5, 5>>, <<5, 8>>}

\* production and bootstrap: an open map
EconSnapshots ==
    {Snapshot(e[1], e[2], n, u, TerrainEmpty) :
        e \in EconPoints, n \in {0, 2},
        u \in {<<>>, << <<<<0, 0>>, 5>> >>, << <<<<0, 0>>, 5>>, <<<<1, 0>>, 8>> >>}}

\* the population cap: max_spores - 1 and max_spores spores
CrowdSnapshots ==
    {Snapshot(e[1], e[2], 2, Crowd(n, <<0, 0>>), TerrainSpawner) :
        e \in {<<150, 7>>, <<150, 8>>}, n \in {max_spores - 1, max_spores}}

\* exploration, clearing and attack
ExploreSnapshots ==
    {Snapshot(1, 0, 1, u, m) :
        <<m, u>> \in UNION {{m1} \X SpreadPlacements(m1, <<5, 8>>) :
                               m1 \in {TerrainEmpty, TerrainPartial, TerrainWall}}}

\* spores among neutrals
SacrificeSnapshots ==
    {Snapshot(1, 0, 1, u, m) :
        <<m, u>> \in UNION {{m1} \X (Placements(FreeTiles(m1), p, MaxUnits) \ {<<>>}) :
                               m1 \in {TerrainRing, TerrainPockets, TerrainSealed},
                               p \in BiomassProfiles}}

\* an enemy spore on the map; the ticks stand one cooldown apart, and one
\* tick short of it
ThreatSnapshots ==
    {Snapshot(t, 4, n, u, TerrainThreat) :
        t \in {0, 1, 1 + panic_spawner_cooldown}, n \in {0, 1, panic_spawner_limit},
        u \in {<< <<<<0, 0>>, 5>> >>, << <<<<1, 1>>, 5>> >>,
               << <<<<2, 1>>, 8>>, <<<<0, 0>>, 5>> >>}} \cup
    {Snapshot(panic_spawner_cooldown, 4, 1, u, TerrainThreat) :
        u \in {<< <<<<1, 1>>, 5>> >>, << <<<<2, 1>>, 8>>, <<<<0, 0>>, 5>> >>}}

Snapshots ==
    EconSnapshots \cup CrowdSnapshots \cup ExploreSnapshots \cup SacrificeSnapshots
        \cup ThreatSnapshots

\* the value of game_message before the first call
NoMessage == Snapshot(0, 0, 0, <<>>, TerrainEmpty)

NoProbe == [fn |-> "none"]

---------------------------------------------------------------------------
(* The engine: Bot.__init__ and a sequence of get_next_move calls *)

Init ==
    /\ visited = {}
    /\ did_initial_spawner_burst = FALSE
    /\ last_panic_spawner_tick = -Unreached
    /\ game_message = NoMessage
    /\ actions = <<>>
    /\ tier = "none"
    /\ sacrificial_spore_id = NoId
    /\ calls = 0
    /\ tick0_seen = FALSE
    /\ observed = {}
    /\ panic_ticks = {}
    /\ probe = NoProbe

\* a call of get_next_move with a snapshot of S, up to its return statement
GetNextMoveOn(S) ==
    /\ calls < MaxCalls
    /\ tier = "none"
    /\ \E gm \in S :
         /\ visited' = _update_visited(visited, gm)
         /\ \E r \in GetNextMoveOutcomes(gm, visited', did_initial_spawner_burst,
                                         last_panic_spawner_tick) :
              /\ game_message' = gm
              /\ actions' = r.actions
              /\ tier' = r.tier
              /\ sacrificial_spore_id' = r.sac
              /\ did_initial_spawner_burst' = r.did_burst
              /\ last_panic_spawner_tick' = r.last_panic
    /\ calls' = calls + 1
    /\ tick0_seen' = (tick0_seen \/ game_message'.tick = 0)
    /\ observed' = observed \cup {game_message'.mySpores[i].position :
                                     i \in DOMAIN game_message'.mySpores}
    /\ panic_ticks' = IF tier' = "panic" THEN panic_ticks \cup {game_message'.tick}
                                         ELSE panic_ticks
    /\ UNCHANGED probe

GetNextMove == GetNextMoveOn(Snapshots)

\* the call returns: its list goes to the caller and its locals are gone,
\* the fields of the instance stay
ReturnActions ==
    /\ tier # "none"
    /\ game_message' = NoMessage
    /\ actions' = <<>>
    /\ tier' = "none"
    /\ sacrificial_spore_id' = NoId
    /\ UNCHANGED <<visited, did_initial_spawner_burst, last_panic_spawner_tick,
                   calls, tick0_seen, observed, panic_ticks, probe>>

Next == GetNextMove \/ ReturnActions

Spec == Init /\ [][Next]_vars

---------------------------------------------------------------------------
(* SpecAstar: _astar_next_step on drawn inputs, then followed step by step *)

Directions == {<<0, -1>>, <<0, 1>>, <<-1, 0>>, <<1, 0>>}

\* the in-bounds 4-neighbours of a tile
Neighbours(t) == {n \in Tiles : Manhattan(n, t) = 1}

\* goals outside the map, one beyond each side
OutsideGoals == {<<-1, 0>>, <<W, 0>>, <<0, -1>>, <<0, H>>}

SubsetsUpTo(S, n) == {B \in SUBSET S : Cardinality(B) <= n}

\* the tiles obstacles are built around: a corner and the tiles next to it,
\* the opposite corner, and a tile of the right and of the bottom edge
AnchorTiles ==
    (({0, 1} \X {0, 1}) \cup {<<W - 1, H - 1>>, <<W - 1, 1>>, <<1, H - 1>>}) \cap Tiles

\* blocked sets: none, some or all of the goal and its neighbours, and up to
\* MaxExtraBlocked more tiles (the start is not kept out of them)
BlockedSets(goal) ==
    {core \cup extra :
        core \in {{}, {goal}, Neighbours(goal), {goal} \cup Neighbours(goal)},
        extra \in SubsetsUpTo(AnchorTiles, MaxExtraBlocked)}

\* <<start, goal, blocked>>: the open map with every start and every goal, on
\* the map or beyond a side of it; obstacles about a goal, with every start
AstarInputs ==
    {<<st, g, {}>> : st \in Tiles, g \in Tiles \cup OutsideGoals} \cup
    UNION {{<<st, g, b>> : st \in Tiles, b \in BlockedSets(g)} : g \in AnchorTiles}

AstarProbes ==
    {[fn |-> "astar", start |-> i[1], goal |-> i[2], blocked |-> i[3], allow |-> a,
      pos |-> i[1], steps |-> 0, called |-> FALSE,
      res |-> AstarResult(None, AstarInitial(i[1], i[2]))] :
        i \in AstarInputs, a \in BOOLEAN}

InitAstar ==
    /\ visited = {}
    /\ did_initial_spawner_burst = FALSE
    /\ last_panic_spawner_tick = -Unreached
    /\ game_message = NoMessage
    /\ actions = <<>>
    /\ tier = "none"
    /\ sacrificial_spore_id = NoId
    /\ calls = 0
    /\ tick0_seen = FALSE
    /\ observed = {}
    /\ panic_ticks = {}
    /\ probe \in AstarProbes

\* next_step from the current tile
AstarCall ==
    /\ probe.fn = "astar"
    /\ ~probe.called
    /\ probe' = [probe EXCEPT
                   !.called = TRUE,
                   !.res = AstarSearch(game_message, probe.pos, probe.goal,
                                       probe.blocked, probe.allow)]
    /\ UNCHANGED engine_vars

\* the caller applies the returned direction
AstarFollow ==
    /\ probe.fn = "astar"
    /\ probe.called
    /\ probe.res.dir # None
    /\ probe.steps < W * H
    /\ probe' = [probe EXCEPT
                   !.called = FALSE,
                   !.pos = <<probe.pos[1] + probe.res.dir[1],
                             probe.pos[2] + probe.res.dir[2]>>,
                   !.steps = probe.steps + 1]
    /\ UNCHANGED engine_vars

NextAstar == AstarCall \/ AstarFollow

SpecAstar == InitAstar /\ [][NextAstar]_vars

---------------------------------------------------------------------------
(* Claims about _astar_next_step, checked under SpecAstar *)

\* the tile a direction leads to
StepFrom(p, d) == <<p[1] + d[1], p[2] + d[2]>>

\* C6: on a grid with no blocked tile, next_step from any tile other than the
\* goal returns a direction that brings the goal exactly 1 nearer (Manhattan),
\* so the walk that follows it stands, after k steps, k nearer than the start
\* and is at the goal after exactly manhattan(start, goal) steps.
C6_EmptyGridWalk ==
    (probe.fn = "astar" /\ probe.blocked = {} /\ probe.goal \in Tiles) =>
        /\ probe.steps + Manhattan(probe.pos, probe.goal)
              = Manhattan(probe.start, probe.goal)
        /\ (probe.called /\ probe.pos # probe.goal) =>
              /\ probe.res.dir \in Directions
              /\ Manhattan(StepFrom(probe.pos, probe.res.dir), probe.goal)
                    = Manhattan(probe.pos, probe.goal) - 1

\* a walk from one corner of the empty grid to the opposite one has arrived
C6_Witness ==
    /\ probe.fn = "astar"
    /\ probe.blocked = {}
    /\ probe.start = <<0, 0>>
    /\ probe.goal = <<W - 1, H - 1>>
    /\ probe.pos = probe.goal
    /\ probe.steps = W + H - 2

\* C7: next_step returns none, having expanded no node, when start = goal,
\* when the goal is outside the map, and when the goal is blocked and
\* allowGoalBlocked is false.
C7_EarlyNone ==
    (/\ probe.fn = "astar"
     /\ probe.called
     /\ \/ probe.pos = probe.goal
        \/ probe.goal \notin Tiles
        \/ probe.goal \in probe.blocked /\ ~probe.allow) =>
        probe.res.dir = None /\ probe.res.expansions = 0

\* a call for a blocked goal elsewhere on the map, without the allowance, whose
\* start has free neighbours to expand
C7_Witness ==
    /\ probe.fn = "astar"
    /\ probe.called
    /\ probe.pos # probe.goal
    /\ probe.goal \in Tiles
    /\ probe.goal \in probe.blocked
    /\ ~probe.allow
    /\ probe.blocked = {probe.goal}
    /\ probe.res.dir = None

\* the goal is blocked, allowed, and so is every in-bounds neighbour of it
SealedGoal ==
    /\ probe.fn = "astar"
    /\ probe.called
    /\ probe.goal \in Tiles
    /\ probe.goal \in probe.blocked
    /\ probe.allow
    /\ Neighbours(probe.goal) \subseteq probe.blocked
    /\ probe.pos # probe.goal

\* C8 as stated: with the goal blocked and allowed and all its in-bounds
\* neighbours blocked, next_step returns none for every start other than the
\* goal, a start next to the goal included.
C8_SealedGoalNoneAnywhere ==
    SealedGoal => probe.res.dir = None

\* C8 as amended: with the goal blocked and allowed and all its in-bounds
\* neighbours blocked, next_step returns none for every start that is neither
\* the goal nor one of those neighbours; from a start that is one of those
\* (blocked) neighbours it returns the direction onto the goal.
C8_SealedGoal ==
    SealedGoal =>
        IF Manhattan(probe.pos, probe.goal) = 1
        THEN probe.res.dir # None /\ StepFrom(probe.pos, probe.res.dir) = probe.goal
        ELSE probe.res.dir = None

\* a call from a free tile two or more away from a sealed goal returned none
C8_Witness ==
    /\ SealedGoal
    /\ probe.pos \notin probe.blocked
    /\ Manhattan(probe.pos, probe.goal) > 1
    /\ Neighbours(probe.pos) \ probe.blocked # {}
    /\ probe.res.dir = None

---------------------------------------------------------------------------
(* SpecArbiter: _choose_sacrifice_target on drawn inputs *)

\* a terrain of neutral spores on the tiles of N, of biomass b[t]
NeutralTerrain(N, b) ==
    [y \in 1..H |-> [x \in 1..W |-> IF <<x - 1, y - 1>> \in N THEN b[<<x - 1, y - 1>>] ELSE 0]]

NeutralBiomassPatterns ==
    {[t \in Tiles |-> 1 + ((t[1] + 2 * t[2]) % 4)],
     [t \in Tiles |-> 4 - ((t[1] + 2 * t[2]) % 4)]}

\* the tiles next to the spores of a placement that hold none of them
Surroundings(u) ==
    UNION {Neighbours(u[i][1]) : i \in DOMAIN u} \ {u[i][1] : i \in DOMAIN u}

\* neutrals on all the surrounding tiles but up to two, or on at most one
NeutralSets(u) ==
    {Surroundings(u) \ R : R \in SubsetsUpTo(Surroundings(u), 2)} \cup
    SubsetsUpTo(Surroundings(u), 1)

\* <<biomass profile of the spores, biomass pattern of the neutrals>>
ArbiterSetups ==
    {q \in BiomassProfiles \X NeutralBiomassPatterns :
        q[1] = <<8, 5>> \/ q[2][<<0, 0>>] = 1}

ArbiterProbes ==
    {[fn |-> "arbiter", gm |-> Snapshot(1, 0, 1, q[1], NeutralTerrain(q[2], b)),
      called |-> FALSE, res |-> [id |-> NoId, move |-> None]] :
        <<b, q>> \in UNION {{s[2]} \X UNION {{u} \X NeutralSets(u) :
                                               u \in Placements(AnchorTiles, s[1], MaxUnits)} :
                             s \in ArbiterSetups}}

InitArbiter ==
    /\ visited = {}
    /\ did_initial_spawner_burst = FALSE
    /\ last_panic_spawner_tick = -Unreached
    /\ game_message = NoMessage
    /\ actions = <<>>
    /\ tier = "none"
    /\ sacrificial_spore_id = NoId
    /\ calls = 0
    /\ tick0_seen = FALSE
    /\ observed = {}
    /\ panic_ticks = {}
    /\ probe \in ArbiterProbes

ArbiterCall ==
    /\ probe.fn = "arbiter"
    /\ ~probe.called
    /\ probe' = [probe EXCEPT
                   !.called = TRUE,
                   !.res = _choose_sacrifice_target(
                               probe.gm, probe.gm.mySpores,
                               _neutral_spore_positions(probe.gm),
                               _neutral_spore_biomass_by_pos(probe.gm))]
    /\ UNCHANGED engine_vars

NextArbiter == ArbiterCall

SpecArbiter == InitArbiter /\ [][NextArbiter]_vars

---------------------------------------------------------------------------
(* Claims about the sacrifice arbiter *)

\* the neutral spores of a snapshot on the in-bounds 4-neighbours of a tile
NeutralsAround(gm, t) ==
    {s \in gm.spores : s.teamId = neutralTeamId /\ s.position \in Tiles
                       /\ Manhattan(s.position, t) = 1}

\* the indexes of the team's spores with surrounded_threshold or more
\* in-bounds neighbours held by neutrals
SurroundedUnits(gm) ==
    {i \in DOMAIN gm.mySpores :
        Cardinality({s.position : s \in NeutralsAround(gm, gm.mySpores[i].position)})
            >= surrounded_threshold}

\* C9: a unit the arbiter returns has at least surrounded_threshold in-bounds
\* neighbours held by neutrals, and the least biomass of all the owned units
\* that have; when no owned unit has that many, it returns no unit and no move.
C9_ArbiterChoice ==
    (probe.fn = "arbiter" /\ probe.called) =>
        IF SurroundedUnits(probe.gm) = {}
        THEN probe.res.id = NoId /\ probe.res.move = None
        ELSE \E i \in SurroundedUnits(probe.gm) :
                /\ probe.res.id = probe.gm.mySpores[i].id
                /\ probe.res.move # None
                /\ probe.res.move.sporeId = probe.res.id
                /\ \A j \in SurroundedUnits(probe.gm) :
                      probe.gm.mySpores[i].biomass <= probe.gm.mySpores[j].biomass

\* two surrounded units, the second of the list the lighter one and returned
C9_Witness ==
    /\ probe.fn = "arbiter"
    /\ probe.called
    /\ SurroundedUnits(probe.gm) = {1, 2}
    /\ probe.gm.mySpores[1].biomass = 8
    /\ probe.gm.mySpores[2].biomass = 5
    /\ probe.res.id = probe.gm.mySpores[2].id

---------------------------------------------------------------------------
(* Claims about get_next_move, checked under Spec *)

MovementTypes == {"SporeMoveAction", "SporeMoveToAction"}

\* the places in the returned list of the actions addressed to a spore
ActionsOf(id) ==
    {k \in DOMAIN actions :
        actions[k].type # "SpawnerProduceSporeAction" /\ actions[k].sporeId = id}

MovementActionsOf(id) ==
    {k \in DOMAIN actions : actions[k].type \in MovementTypes /\ actions[k].sporeId = id}

ProduceActionsAt == {k \in DOMAIN actions : actions[k].type = "SpawnerProduceSporeAction"}

AllMovementActions == {k \in DOMAIN actions : actions[k].type \in MovementTypes}

OwnedUnits == DOMAIN game_message.mySpores

UnitId(i) == game_message.mySpores[i].id

\* a call is at its return statement, with its list in actions
AtReturn == tier # "none"

\* a call is returning, from neither the burst nor the panic tier
PastBurstAndPanic == AtReturn /\ tier \notin {"burst", "panic"}

\* the team has no structure and at least one unit
NeedsBootstrap == Len(game_message.mySpawners) = 0 /\ Len(game_message.mySpores) >= 1

\* C1 as stated: a call that is neither the tick-0 burst nor a panic tick
\* returns exactly one action for each owned unit, and at most one movement
\* action for it, also with zero structures and two or more units.
C1_OneActionPerUnitAlways ==
    PastBurstAndPanic =>
        \A i \in OwnedUnits :
            /\ Cardinality(ActionsOf(UnitId(i))) = 1
            /\ Cardinality(MovementActionsOf(UnitId(i))) <= 1

\* C1 as amended: a call that is neither the tick-0 burst, nor a panic tick,
\* nor a bootstrap tick (zero structures, at least one unit) returns exactly
\* one action for each owned unit, a movement action; on a bootstrap tick the
\* first owned unit alone gets an action and every other unit gets none.
C1_OneActionPerUnit ==
    PastBurstAndPanic =>
        \A i \in OwnedUnits :
            IF NeedsBootstrap
            THEN Cardinality(ActionsOf(UnitId(i))) = (IF i = 1 THEN 1 ELSE 0)
            ELSE /\ Cardinality(ActionsOf(UnitId(i))) = 1
                 /\ Cardinality(MovementActionsOf(UnitId(i))) = 1

\* a movement tick of two units, one of them with no path to its target
C1_Witness ==
    /\ PastBurstAndPanic
    /\ ~NeedsBootstrap
    /\ Len(game_message.mySpores) = 2
    /\ \E k \in DOMAIN actions : actions[k].type = "SporeMoveToAction"
    /\ \E k \in DOMAIN actions : actions[k].type = "SporeMoveAction"

\* C2: in every returned list each owned unit id is in at most one movement
\* action (by direction or to a tile); the unit chosen for sacrifice has its
\* override move and no other action.
C2_OneMovementPerUnit ==
    AtReturn =>
        /\ \A i \in OwnedUnits : Cardinality(MovementActionsOf(UnitId(i))) <= 1
        /\ sacrificial_spore_id # NoId =>
              /\ Cardinality(ActionsOf(sacrificial_spore_id)) = 1
              /\ \A k \in ActionsOf(sacrificial_spore_id) :
                    actions[k].type = "SporeMoveAction"

\* a tick of two units, one sacrificed and the other moved
C2_Witness ==
    /\ AtReturn
    /\ sacrificial_spore_id # NoId
    /\ Len(game_message.mySpores) = 2
    /\ Cardinality(AllMovementActions) = 2

\* the list of the burst: one create-structure action per owned unit
BurstList(gm) ==
    [i \in 1..Len(gm.mySpores) |->
        [type |-> "SporeCreateSpawnerAction", sporeId |-> gm.mySpores[i].id]]

\* C3: a call returns from the burst tier exactly when its tick is 0 and no
\* earlier call had tick 0 (so the first tick-0 call does, a later one does
\* not, and no call with another tick does), and the list it then returns is
\* one create-structure action per owned unit and nothing else.
C3_BurstOnce ==
    [][calls' = calls + 1 =>
          /\ (tier' = "burst") <=> (game_message'.tick = 0 /\ ~tick0_seen)
          /\ tier' = "burst" => actions' = BurstList(game_message')]_vars

\* a second call with tick 0 that did not repeat the burst of the first
C3_Witness ==
    /\ calls = 2
    /\ game_message.tick = 0
    /\ did_initial_spawner_burst
    /\ tier # "burst"
    /\ Len(game_message.mySpores) = 2

\* C4: past the burst and panic tiers, with zero structures and at least one
\* unit, the list is one create-structure action for the first unit of the
\* snapshot's list: no produce action, no movement action, whatever the
\* nutrient stock.
C4_Bootstrap ==
    (PastBurstAndPanic /\ NeedsBootstrap) =>
        actions = <<[type |-> "SporeCreateSpawnerAction", sporeId |-> UnitId(1)]>>

\* a bootstrap tick of two units with a stock that would pay any production
C4_Witness ==
    /\ PastBurstAndPanic
    /\ NeedsBootstrap
    /\ Len(game_message.mySpores) = 2
    /\ game_message.nutrients >= spawn_biomass_cap
    /\ Len(actions) = 1

\* scaled_cost(tick) = min(4 * 2^(tick div 150), 256)
ScaledCost(t) ==
    IF 4 * 2^(t \div 150) <= 256 THEN 4 * 2^(t \div 150) ELSE 256

\* C5: a produce action is in the list only when the nutrients are at least
\* scaled_cost(tick); its biomass is scaled_cost(tick), it names the first
\* owned structure, the owned unit count is below 25, and the list holds at
\* most one produce action.
C5_Production ==
    AtReturn =>
        /\ Cardinality(ProduceActionsAt) <= 1
        /\ \A k \in ProduceActionsAt :
              /\ game_message.nutrients >= ScaledCost(game_message.tick)
              /\ actions[k].biomass = ScaledCost(game_message.tick)
              /\ Len(game_message.mySpawners) >= 1
              /\ actions[k].spawnerId = game_message.mySpawners[1].id
              /\ Len(game_message.mySpores) < 25

\* a produce action at the capped cost, paid exactly
C5_Witness ==
    /\ AtReturn
    /\ ProduceActionsAt # {}
    /\ game_message.tick = 1050
    /\ game_message.nutrients = 256
    /\ \A k \in ProduceActionsAt : actions[k].biomass = 256

\* no tile of the map is an exploration target of any owned unit: each is
\* visited, blocked, or the unit's own
NoExplorationTarget ==
    \A i \in OwnedUnits : \A t \in Tiles :
        \/ t \in visited
        \/ t = game_message.mySpores[i].position
        \/ \E s \in game_message.spores : s.position = t /\ s.teamId # yourTeamId
        \/ \E w \in game_message.spawners : w.position = t /\ w.teamId # yourTeamId

\* some owned unit has a neutral on each of 4 in-bounds neighbours
SomeUnitEnclosed ==
    \E i \in OwnedUnits :
        Cardinality({s.position :
                        s \in NeutralsAround(game_message, game_message.mySpores[i].position)}) = 4

\* C10: on a tick that reaches the sacrifice-or-explore tier with no
\* exploration target for any owned unit and an owned unit enclosed by 4
\* neutrals, the list holds exactly one sacrifice move: the one action of the
\* chosen unit (of the least biomass among the surrounded ones), a move by
\* direction onto an adjacent neutral of the least biomass among the neutrals
\* next to that unit.
C10_SacrificeMove ==
    (AtReturn /\ tier = "movement" /\ NoExplorationTarget /\ SomeUnitEnclosed) =>
        \E i \in SurroundedUnits(game_message) :
            /\ sacrificial_spore_id = UnitId(i)
            /\ \A j \in SurroundedUnits(game_message) :
                  game_message.mySpores[i].biomass <= game_message.mySpores[j].biomass
            /\ Cardinality(ActionsOf(UnitId(i))) = 1
            /\ \A k \in ActionsOf(UnitId(i)) :
                  /\ actions[k].type = "SporeMoveAction"
                  /\ actions[k].direction \in Directions
                  /\ \E n \in NeutralsAround(game_message, game_message.mySpores[i].position) :
                        /\ n.position = StepFrom(game_message.mySpores[i].position,
                                                 actions[k].direction)
                        /\ \A o \in NeutralsAround(game_message,
                                                   game_message.mySpores[i].position) :
                              n.biomass <= o.biomass

\* an enclosed unit sacrificed onto a neutral that is not the first of its
\* neighbours in the scan order
C10_Witness ==
    /\ AtReturn
    /\ tier = "movement"
    /\ NoExplorationTarget
    /\ SomeUnitEnclosed
    /\ sacrificial_spore_id # NoId
    /\ \E k \in ActionsOf(sacrificial_spore_id) : actions[k].direction # <<0, -1>>

\* C11: at every moment the visited set holds only tiles of the map on which
\* an owned spore stood in the snapshot of the current or of an earlier call,
\* and no step, whatever tier the call returns from, takes a tile out of it.
C11_VisitedObserved ==
    /\ [](visited \subseteq Tiles \cap observed)
    /\ [][visited \subseteq visited']_vars

\* a second call that returned early, from the bootstrap tier, with the tiles
\* of both calls' spores in the visited set
C11_Witness ==
    /\ calls = 2
    /\ tier = "bootstrap"
    /\ Cardinality(visited) >= 3
    /\ \E t \in visited : \A i \in OwnedUnits : game_message.mySpores[i].position # t

\* a hostile spore (of neither the team nor the neutrals) stands within
\* Manhattan distance 3 of an owned spore
HostileNear(gm) ==
    \E i \in DOMAIN gm.mySpores : \E s \in gm.spores :
        /\ s.teamId \notin {yourTeamId, neutralTeamId}
        /\ Manhattan(gm.mySpores[i].position, s.position) <= 3

\* the least distance from a tile to a hostile spore
HostileDistance(gm, t) ==
    LET ds == {Manhattan(t, s.position) :
                 s \in {h \in gm.spores : h.teamId \notin {yourTeamId, neutralTeamId}}}
    IN CHOOSE d \in ds : \A e \in ds : d <= e

\* the owned spores that are farthest from their nearest hostile spore
SafestUnits(gm) ==
    {i \in DOMAIN gm.mySpores :
        \A j \in DOMAIN gm.mySpores :
            HostileDistance(gm, gm.mySpores[j].position)
                <= HostileDistance(gm, gm.mySpores[i].position)}

\* C12: a call that does not return from the burst, with a hostile spore
\* within distance 3 of an owned one and the last panic 30 ticks or more ago,
\* returns, with fewer than 3 structures, exactly one create-structure action,
\* for a safest spore, and nothing else; with 3 structures or more it goes on
\* to the movement tier, where every owned spore gets its movement action.
C12_PanicTier ==
    [][(/\ calls' = calls + 1
        /\ tier' # "burst"
        /\ HostileNear(game_message')
        /\ game_message'.tick - last_panic_spawner_tick >= 30) =>
          IF Len(game_message'.mySpawners) < 3
          THEN /\ tier' = "panic"
               /\ \E i \in SafestUnits(game_message') :
                     actions' = <<[type |-> "SporeCreateSpawnerAction",
                                   sporeId |-> game_message'.mySpores[i].id]>>
          ELSE /\ tier' = "movement"
               /\ \A i \in DOMAIN game_message'.mySpores :
                     \E k \in DOMAIN actions' :
                        /\ actions'[k].type \in MovementTypes
                        /\ actions'[k].sporeId = game_message'.mySpores[i].id]_vars

\* a panic tick of two spores, the safest the second of the list, with a
\* stock that would pay a production
C12_Witness ==
    /\ tier = "panic"
    /\ Len(game_message.mySpores) = 2
    /\ Len(game_message.mySpawners) = 1
    /\ game_message.nutrients >= _current_spawn_biomass(game_message.tick)
    /\ actions = <<[type |-> "SporeCreateSpawnerAction",
                    sporeId |-> game_message.mySpores[2].id]>>

\* C15: any two ticks on which the panic tier returned are 30 or more apart,
\* and the stored last-panic tick changes only in a call that returns the
\* panic create-structure action, to that call's tick (a threat that the
\* structure cap keeps from firing leaves it alone).
C15_PanicCooldown ==
    /\ [](\A a \in panic_ticks : \A b \in panic_ticks : a < b => b - a >= 30)
    /\ [][last_panic_spawner_tick' # last_panic_spawner_tick =>
            /\ calls' = calls + 1
            /\ tier' = "panic"
            /\ actions'[1].type = "SporeCreateSpawnerAction"
            /\ last_panic_spawner_tick' = game_message'.tick]_vars

\* a second panic exactly one cooldown after the first
C15_Witness ==
    /\ tier = "panic"
    /\ panic_ticks = {1, 31}
    /\ last_panic_spawner_tick = 31

---------------------------------------------------------------------------
(* _pick_safest_spore_for_new_spawner, called on its own *)

\* the hostile tiles handed to the call: none, one, or two opposite corners
EnemySets ==
    {{}} \cup {{e} : e \in AnchorTiles} \cup {{<<0, 0>>, <<W - 1, H - 1>>}}

\* the terrain with a hostile spore on every tile of E
EnemyTerrain(E) ==
    [y \in 1..H |-> [x \in 1..W |-> IF <<x - 1, y - 1>> \in E THEN -1 ELSE 0]]

\* the team's spores in any order on the anchor tiles, off the hostile tiles
SafestProbes ==
    {[fn |-> "safest", gm |-> Snapshot(1, 0, 1, q[1], EnemyTerrain(q[2])),
      called |-> FALSE, res |-> 0] :
        q \in UNION {Placements(AnchorTiles \ E, <<5, 5>>, MaxUnits) \X {E} :
                       E \in EnemySets}}

InitSafest ==
    /\ visited = {}
    /\ did_initial_spawner_burst = FALSE
    /\ last_panic_spawner_tick = -Unreached
    /\ game_message = NoMessage
    /\ actions = <<>>
    /\ tier = "none"
    /\ sacrificial_spore_id = NoId
    /\ calls = 0
    /\ tick0_seen = FALSE
    /\ observed = {}
    /\ panic_ticks = {}
    /\ probe \in SafestProbes

SafestCall ==
    /\ probe.fn = "safest"
    /\ ~probe.called
    /\ probe' = [probe EXCEPT
                   !.called = TRUE,
                   !.res = _pick_safest_spore_for_new_spawner(
                               probe.gm, _enemy_spore_positions(probe.gm))]
    /\ UNCHANGED engine_vars

NextSafest == SafestCall

SpecSafest == InitSafest /\ [][NextSafest]_vars

\* the least distance from a tile to the hostile spores of the call, none
\* counting as equally far from everywhere
ProbeMinDist(t) ==
    IF \A h \in probe.gm.spores : h.teamId \in {yourTeamId, neutralTeamId}
    THEN 0
    ELSE HostileDistance(probe.gm, t)

\* (x, y) below (x', y') in the lexicographic order, or equal to it
LexLeq(p, q) == p[1] < q[1] \/ (p[1] = q[1] /\ p[2] <= q[2])

\* the spores of the call farthest from their nearest hostile tile
ProbeSafest ==
    {i \in DOMAIN probe.gm.mySpores :
        \A j \in DOMAIN probe.gm.mySpores :
            ProbeMinDist(probe.gm.mySpores[j].position)
                <= ProbeMinDist(probe.gm.mySpores[i].position)}

\* C16: the spore returned is one farthest from its nearest hostile tile and,
\* of those, the one on the lexicographically greatest tile, whatever the
\* order of the spores; with no hostile tile it is the spore on the
\* lexicographically greatest tile.
C16_SafestLexGreatest ==
    (probe.fn = "safest" /\ probe.called /\ probe.gm.mySpores # <<>>) =>
        /\ probe.res \in ProbeSafest
        /\ \A j \in ProbeSafest :
              LexLeq(probe.gm.mySpores[j].position,
                     probe.gm.mySpores[probe.res].position)

---------------------------------------------------------------------------
(* The target choice of the movement loop, on a map wider than the radii *)

\* a snapshot of a map of any size: the team's spores, neutral spores and
\* hostile spawners on the given tiles
MapSnapshot(width, height, units, neutral_tiles, spawner_tiles) ==
    [tick |-> 1, width |-> width, height |-> height,
     nutrientGrid |-> [t \in (0..(width - 1)) \X (0..(height - 1)) |->
                          (2 * t[1] + t[2]) % 3],
     spores |-> SeqRange(MySpores(units)) \cup
                {[id |-> 1000 + 10 * t[1] + t[2], teamId |-> neutralTeamId,
                  position |-> t, biomass |-> 3] : t \in neutral_tiles},
     spawners |-> SeqRange(MySpawners(1)) \cup
                  {[id |-> 200000 + 10 * t[1] + t[2], teamId |-> enemyTeamId,
                    position |-> t] : t \in spawner_tiles},
     mySpores |-> MySpores(units),
     mySpawners |-> MySpawners(1),
     nutrients |-> 0]

\* a strip one tile longer than the attack radius reaches from its second tile
StripWidth == attack_spawner_radius + 2

StripTiles == (0..(StripWidth - 1)) \X {0}

\* a spore on the first or the second tile; no hostile spawner, or spawners
\* at attack_spawner_radius and one beyond; neutrals next to the spore, at
\* neutral_clear_radius and beyond it; every tile visited, or all but one or two
TargetProbes ==
    {[fn |-> "targets",
      gm |-> MapSnapshot(StripWidth, 1, << <<<<x, 0>>, 5>> >>, N, S),
      visited |-> StripTiles \ U, called |-> FALSE,
      res |-> [target |-> None, allow_goal_blocked |-> FALSE]] :
        x \in {0, 1},
        N \in {{}, {<<2, 0>>}, {<<neutral_clear_radius + 1, 0>>},
               {<<2, 0>>, <<neutral_clear_radius + 1, 0>>},
               {<<neutral_clear_radius + 2, 0>>}},
        S \in {{}, {<<StripWidth - 1, 0>>}, {<<StripWidth - 2, 0>>},
               {<<StripWidth - 2, 0>>, <<StripWidth - 1, 0>>}},
        U \in {{}, {<<5, 0>>}, {<<5, 0>>, <<StripWidth - 1, 0>>}}}

InitTargets ==
    /\ visited = {}
    /\ did_initial_spawner_burst = FALSE
    /\ last_panic_spawner_tick = -Unreached
    /\ game_message = NoMessage
    /\ actions = <<>>
    /\ tier = "none"
    /\ sacrificial_spore_id = NoId
    /\ calls = 0
    /\ tick0_seen = FALSE
    /\ observed = {}
    /\ panic_ticks = {}
    /\ probe \in TargetProbes

\* one pass of the movement loop up to the call of the pathfinder
TargetsCall ==
    /\ probe.fn = "targets"
    /\ ~probe.called
    /\ \E tg \in UnitTargets(probe.gm, probe.visited, probe.gm.mySpores[1],
                             BlockedForPath(probe.gm),
                             _neutral_spore_positions(probe.gm),
                             _enemy_spawner_positions(probe.gm)) :
          probe' = [probe EXCEPT !.called = TRUE, !.res = tg]
    /\ UNCHANGED engine_vars

NextTargets == TargetsCall

SpecTargets == InitTargets /\ [][NextTargets]_vars

\* the spore's tile
ProbeStart == probe.gm.mySpores[1].position

ProbeMap == (0..(probe.gm.width - 1)) \X (0..(probe.gm.height - 1))

\* the tiles of the hostile spawners, and those within the attack radius 12
HostileStructures ==
    {s.position : s \in {h \in probe.gm.spawners :
                           h.teamId \notin {yourTeamId, neutralTeamId}}}

StructuresInReach == {t \in HostileStructures : Manhattan(t, ProbeStart) <= 12}

\* the tiles of the neutral spores, and those within the clearing radius 8
NeutralTilesOf == {s.position : s \in {h \in probe.gm.spores : h.teamId = neutralTeamId}}

NeutralsInReach == {t \in NeutralTilesOf : Manhattan(t, ProbeStart) <= 8}

\* the tiles of the map an exploration target can be: not visited, not held by
\* a neutral, a hostile spore or a hostile spawner, not the spore's own
Explorable ==
    {t \in ProbeMap :
        /\ t \notin probe.visited
        /\ t # ProbeStart
        /\ t \notin HostileStructures
        /\ \A s \in probe.gm.spores : s.teamId = yourTeamId \/ s.position # t}

Nearest(S) == {t \in S : \A u \in S : Manhattan(t, ProbeStart) <= Manhattan(u, ProbeStart)}

\* the order of the four targets
TargetPriority ==
    IF StructuresInReach # {} THEN probe.res.target \in Nearest(StructuresInReach)
    ELSE IF Explorable # {} THEN probe.res.target \in Explorable
    ELSE IF NeutralsInReach # {} THEN probe.res.target \in Nearest(NeutralsInReach)
    ELSE probe.res.target \in ProbeMap

\* C13 as stated: the four targets in their order, and the allowance set
\* exactly when the target is a hostile structure or a neutral tile.
C13_TargetPriorityAnyStructure ==
    (probe.fn = "targets" /\ probe.called) =>
        /\ TargetPriority
        /\ probe.res.allow_goal_blocked
             <=> (probe.res.target \in HostileStructures \cup NeutralTilesOf)

\* C13, amended: the four targets in their order; the allowance is set exactly
\* when the target is a hostile structure within the attack radius or a
\* neutral tile (a random tile that holds a hostile structure farther than
\* the attack radius gets none).
C13_TargetPriority ==
    (probe.fn = "targets" /\ probe.called) =>
        /\ TargetPriority
        /\ probe.res.allow_goal_blocked
             <=> (probe.res.target \in StructuresInReach \cup NeutralTilesOf)

\* a hostile structure exactly at the attack radius taken while a tile is
\* left to explore and a neutral is next to the spore
C13_Witness ==
    /\ probe.fn = "targets"
    /\ probe.called
    /\ Explorable # {}
    /\ NeutralsInReach # {}
    /\ Manhattan(probe.res.target, ProbeStart) = 12
    /\ probe.res.target \in HostileStructures
    /\ probe.res.allow_goal_blocked

---------------------------------------------------------------------------
(* _pick_unvisited_target, called on its own *)

\* the window's radius: one tile, so that the map has tiles outside the
\* window, and the default
PickRadii == {1, search_radius}

\* every tile visited but up to three anchor tiles, or none visited; no blocked
\* tile, or one in the middle or in the far corner
PickProbes ==
    {[fn |-> "pick", start |-> q[1], visited |-> q[2], blocked |-> q[3],
      radius |-> q[4], called |-> FALSE, res |-> None] :
        q \in {<<0, 0>>, <<1, 1>>}
              \X ({Tiles \ U : U \in SubsetsUpTo(AnchorTiles, 3)} \cup {{}})
              \X {{}, {<<1, 1>>}, {<<W - 1, H - 1>>}}
              \X PickRadii}

InitPick ==
    /\ visited = {}
    /\ did_initial_spawner_burst = FALSE
    /\ last_panic_spawner_tick = -Unreached
    /\ game_message = NoMessage
    /\ actions = <<>>
    /\ tier = "none"
    /\ sacrificial_spore_id = NoId
    /\ calls = 0
    /\ tick0_seen = FALSE
    /\ observed = {}
    /\ panic_ticks = {}
    /\ probe \in PickProbes

PickCall ==
    /\ probe.fn = "pick"
    /\ ~probe.called
    /\ \E r \in _pick_unvisited_target(game_message, probe.visited, probe.start,
                                       probe.blocked, probe.radius) :
          probe' = [probe EXCEPT !.called = TRUE, !.res = r]
    /\ UNCHANGED engine_vars

NextPick == PickCall

SpecPick == InitPick /\ [][NextPick]_vars

\* a tile the selector may return: on the map, not visited, not blocked, not
\* the start
PickEligible == {t \in Tiles : t \notin probe.visited /\ t \notin probe.blocked
                               /\ t # probe.start}

\* the eligible tiles of the square of the call's radius about the start
PickWindowEligible ==
    {t \in PickEligible : /\ Abs(t[1] - probe.start[1]) <= probe.radius
                          /\ Abs(t[2] - probe.start[2]) <= probe.radius}

PickScore(t) == 3 * NutrientGrid[t] - Manhattan(probe.start, t)

\* C20: a returned tile is in bounds, not visited, not blocked and not the
\* start; when the window about the start has such a tile, the result is one
\* of the window's and none of them scores higher (the random samples over
\* the whole map are not drawn).
C20_PickTarget ==
    (probe.fn = "pick" /\ probe.called) =>
        /\ probe.res # None => probe.res \in PickEligible
        /\ PickWindowEligible # {} =>
              /\ probe.res \in PickWindowEligible
              /\ \A u \in PickWindowEligible : PickScore(u) <= PickScore(probe.res)

\* a window of radius 1 with two tiles of different scores to choose from,
\* and a better tile outside it
C20_Witness ==
    /\ probe.fn = "pick"
    /\ probe.called
    /\ probe.radius = 1
    /\ probe.res \in PickWindowEligible
    /\ \E u \in PickWindowEligible : PickScore(u) < PickScore(probe.res)
    /\ \E u \in PickEligible \ PickWindowEligible : PickScore(u) > PickScore(probe.res)

---------------------------------------------------------------------------
(* Claims about the search of _astar_next_step, checked under SpecAstar *)

\* a returned direction is one of the four unit vectors and leads to a tile
\* of the map that is not blocked, unless it is the exempted goal
DirectionSound ==
    probe.res.dir # None =>
        /\ probe.res.dir \in Directions
        /\ StepFrom(probe.pos, probe.res.dir) \in Tiles
        /\ StepFrom(probe.pos, probe.res.dir) \in probe.blocked =>
              (probe.allow /\ StepFrom(probe.pos, probe.res.dir) = probe.goal)

\* the tiles the call expanded, and the predecessors it recorded
Touched == probe.res.expanded \cup {probe.res.came_from[k] : k \in DOMAIN probe.res.came_from}

\* C17 as stated: a returned direction is sound, and no blocked tile other
\* than the exempted goal is expanded or recorded as a predecessor.
C17_BlockedNeverTouched ==
    (probe.fn = "astar" /\ probe.called) =>
        /\ DirectionSound
        /\ \A t \in Touched \cap probe.blocked : probe.allow /\ t = probe.goal

\* C17, amended: a returned direction is sound, and no blocked tile other
\* than the start of the call (which is never tested against the blocked
\* set) is expanded or recorded as a predecessor; the exempted goal is
\* neither, the search ends when it is popped.
C17_BlockedOnlyStartTouched ==
    (probe.fn = "astar" /\ probe.called) =>
        /\ DirectionSound
        /\ \A t \in Touched \cap probe.blocked : t = probe.pos

\* a direction returned towards a blocked, exempted goal, from an unblocked
\* start with a blocked tile next to it, after three expansions or more
C17_Witness ==
    /\ probe.fn = "astar"
    /\ probe.called
    /\ probe.res.dir # None
    /\ probe.allow
    /\ probe.goal \in probe.blocked
    /\ probe.pos \notin probe.blocked
    /\ Neighbours(probe.pos) \cap probe.blocked # {}
    /\ Cardinality(probe.res.expanded) >= 3

\* a tile a path to the goal of the call may pass: on the map and not
\* blocked, or the goal when it is exempted
Passable(t) ==
    /\ t \in Tiles
    /\ t \notin probe.blocked \/ (probe.allow /\ t = probe.goal)

\* breadth-first from the goal over the passable tiles: the map from each tile
\* reached to the length of its shortest path, `layer` being the tiles at
\* distance k
RECURSIVE Flood(_, _, _)
Flood(dist, layer, k) ==
    IF layer = {} THEN dist
    ELSE LET found == [t \in layer |-> k] @@ dist
             next == {t \in Tiles \ DOMAIN found :
                        Passable(t) /\ \E n \in layer : Manhattan(t, n) = 1}
         IN Flood(found, next, k + 1)

\* the lengths of the shortest paths to the goal of the call
PathDistances == Flood(<<>>, {t \in {probe.goal} : Passable(t)}, 0)

Connected(t) == t \in DOMAIN PathDistances

PathDistance(t) == PathDistances[t]

\* the passable, connected tiles next to the start of the call: the first
\* steps of the paths that leave it
FirstSteps == {n \in Tiles : Manhattan(n, probe.pos) = 1 /\ Connected(n)}

\* C18 as stated, for a start that is not the goal: a direction is returned
\* iff some path of unblocked tiles (the goal exempt when allowed) leads from
\* the start to the goal, and the step taken is 1 nearer to the goal than the
\* start, in path length.
C18_OptimalComplete ==
    (probe.fn = "astar" /\ probe.called /\ probe.pos # probe.goal) =>
        /\ probe.res.dir # None <=> Connected(probe.pos)
        /\ probe.res.dir # None =>
              /\ Connected(StepFrom(probe.pos, probe.res.dir))
              /\ PathDistance(StepFrom(probe.pos, probe.res.dir))
                    = PathDistance(probe.pos) - 1

\* C18, amended: the start itself need not be unblocked. From a start that is
\* not the goal a direction is returned iff some tile next to the start has a
\* path of unblocked tiles (the goal exempt when allowed) to the goal, and
\* the step taken is onto such a tile of the least path length.
C18_OptimalCompleteFromAnyStart ==
    (probe.fn = "astar" /\ probe.called /\ probe.pos # probe.goal) =>
        /\ probe.res.dir # None <=> FirstSteps # {}
        /\ probe.res.dir # None =>
              /\ StepFrom(probe.pos, probe.res.dir) \in FirstSteps
              /\ \A n \in FirstSteps :
                    PathDistance(StepFrom(probe.pos, probe.res.dir)) <= PathDistance(n)

\* a step on a detour: the direct way is blocked, and the step taken leads
\* away from the goal by the Manhattan distance, nearer by path length
C18_Witness ==
    /\ probe.fn = "astar"
    /\ probe.called
    /\ probe.pos \notin probe.blocked
    /\ probe.res.dir # None
    /\ PathDistance(probe.pos) > Manhattan(probe.pos, probe.goal)
    /\ Manhattan(StepFrom(probe.pos, probe.res.dir), probe.goal)
          > Manhattan(probe.pos, probe.goal)
    /\ PathDistance(StepFrom(probe.pos, probe.res.dir)) = PathDistance(probe.pos) - 1

---------------------------------------------------------------------------
(* The loops of _astar_next_step, pass by pass, on maps long enough for the *)
(* expansion cap                                                            *)

\* a strip with more tiles than the cap allows expansions
LongStrip == astar_max_expansions + 2

\* a strip short enough to follow by hand
ShortStrip == 6

\* <<width, height, start, goal, blocked, allow>>: the long strip with the
\* goal at the cap's distance and one short of it; the short strip
\* with a wall at every place, the goal included; the open map and single
\* obstacles on it
LoopInputs ==
    {<<LongStrip, 1, <<0, 0>>, <<astar_max_expansions + d, 0>>, {}, FALSE>> :
        d \in {-1, 0}} \cup
    {<<ShortStrip, 1, <<st, 0>>, <<ShortStrip - 1, 0>>, B, a>> :
        st \in {0, 1}, B \in {{}} \cup {{<<k, 0>>} : k \in 0..(ShortStrip - 1)},
        a \in BOOLEAN} \cup
    {<<W, H, st, g, B, a>> :
        st \in Tiles, g \in AnchorTiles \cup {<<W, 0>>},
        B \in SubsetsUpTo(AnchorTiles, 1), a \in BOOLEAN}

LoopProbes ==
    {[fn |-> "loop", width |-> i[1], height |-> i[2], start |-> i[3], goal |-> i[4],
      blocked |-> i[5], allow |-> i[6], pc |-> "entry",
      s |-> AstarInitial(i[3], i[4]), cur |-> None, res |-> None] :
        i \in LoopInputs}

InitLoop ==
    /\ visited = {}
    /\ did_initial_spawner_burst = FALSE
    /\ last_panic_spawner_tick = -Unreached
    /\ game_message = NoMessage
    /\ actions = <<>>
    /\ tier = "none"
    /\ sacrificial_spore_id = NoId
    /\ calls = 0
    /\ tick0_seen = FALSE
    /\ observed = {}
    /\ panic_ticks = {}
    /\ probe \in LoopProbes

\* what the search reads of the snapshot: the size of the map
LoopMap == [width |-> probe.width, height |-> probe.height]

\* the top of the heap is the goal
GoalOnTop ==
    LET top == HeapTop(probe.s.open_heap)
    IN <<top[3], top[4]>> = probe.goal

\* where a call stands: before the early returns; in the while loop with a
\* tile other than the goal on top, or with the goal on top, or with the loop's
\* condition false; in the walk back, before or at its last tile
CanEnter == probe.fn = "loop" /\ probe.pc = "entry"

CanExpand ==
    probe.fn = "loop" /\ probe.pc = "while" /\ ~AstarLoopExits(probe.s) /\ ~GoalOnTop

CanGoal ==
    probe.fn = "loop" /\ probe.pc = "while" /\ ~AstarLoopExits(probe.s) /\ GoalOnTop

CanNone == probe.fn = "loop" /\ probe.pc = "while" /\ AstarLoopExits(probe.s)

CanBacktrack ==
    /\ probe.fn = "loop"
    /\ probe.pc = "backtrack"
    /\ LET prev == GetOr(probe.s.came_from, probe.cur, None)
       IN prev # None /\ prev # probe.start

CanReturn ==
    /\ probe.fn = "loop"
    /\ probe.pc = "backtrack"
    /\ LET prev == GetOr(probe.s.came_from, probe.cur, None)
       IN ~(prev # None /\ prev # probe.start)

\* the early returns, or the entry into the while loop
LoopEnter ==
    /\ CanEnter
    /\ probe' = IF AstarEarlyReturn(LoopMap, probe.start, probe.goal, probe.blocked,
                                    probe.allow)
                THEN [probe EXCEPT !.pc = "done", !.res = None]
                ELSE [probe EXCEPT !.pc = "while"]
    /\ UNCHANGED engine_vars

\* a pass of the while loop that pops a tile other than the goal
LoopExpand ==
    /\ CanExpand
    /\ probe' = [probe EXCEPT
                   !.s = AstarExpand(LoopMap, probe.s, probe.goal, probe.blocked,
                                     probe.allow)]
    /\ UNCHANGED engine_vars

\* the pass that pops the goal
LoopGoal ==
    /\ CanGoal
    /\ probe' = [probe EXCEPT !.pc = "backtrack", !.cur = probe.goal]
    /\ UNCHANGED engine_vars

\* a pass of the walk back along came_from
LoopBacktrack ==
    /\ CanBacktrack
    /\ probe' = [probe EXCEPT !.cur = GetOr(probe.s.came_from, probe.cur, None)]
    /\ UNCHANGED engine_vars

\* the walk back has come next to the start: the direction is returned
LoopReturn ==
    /\ CanReturn
    /\ probe' = [probe EXCEPT
                   !.pc = "done",
                   !.res = <<probe.cur[1] - probe.start[1],
                             probe.cur[2] - probe.start[2]>>]
    /\ UNCHANGED engine_vars

\* the while loop is left: None is returned
LoopNone ==
    /\ CanNone
    /\ probe' = [probe EXCEPT !.pc = "done", !.res = None]
    /\ UNCHANGED engine_vars

NextLoop ==
    LoopEnter \/ LoopExpand \/ LoopGoal \/ LoopBacktrack \/ LoopReturn \/ LoopNone

SpecLoop == InitLoop /\ [][NextLoop]_vars

\* the bound on the expansions, and what is returned when the loop is left
LoopBounded ==
    /\ probe.s.expansions <= astar_max_expansions
    /\ probe.pc = "done" =>
          /\ probe.res \in Directions \cup {None}
          /\ AstarLoopExits(probe.s) => probe.res = None

\* the passes a call has left at most: the expansions up to the cap, then the
\* walk back, which goes down in g_score
LoopRank ==
    CASE probe.pc = "entry" -> 2 * astar_max_expansions + 3
      [] probe.pc = "while" -> 2 * astar_max_expansions + 2 - probe.s.expansions
      [] probe.pc = "backtrack" -> probe.s.g_score[probe.cur] + 1
      [] probe.pc = "done" -> 0

\* C19: every call comes to its return: a call that has not returned has a
\* next pass to make, and every pass brings the natural number LoopRank
\* down. It makes at most astar_max_expansions expansions; what it returns is
\* a direction or None, and None when the loop is left with the cap reached
\* or the frontier empty.
C19_BoundedSearch ==
    /\ [](probe.pc # "done" =>
            CanEnter \/ CanExpand \/ CanGoal \/ CanNone \/ CanBacktrack \/ CanReturn)
    /\ [](LoopRank \in Nat)
    /\ [][LoopRank' < LoopRank]_vars
    /\ []LoopBounded

\* the cap was reached with the goal waiting on the frontier: None is
\* returned though a path exists
C19_Witness ==
    /\ probe.fn = "loop"
    /\ probe.pc = "done"
    /\ probe.res = None
    /\ probe.s.expansions = astar_max_expansions
    /\ \E e \in probe.s.open_heap : <<e[3], e[4]>> = probe.goal

---------------------------------------------------------------------------
(* The engine on a map wider than the exploration window *)

\* a map two tiles high, with two columns beyond the window of a spore in
\* its second column
WideWidth == search_radius + 3

WideTiles == (0..(WideWidth - 1)) \X {0, 1}

\* spore A, in the top row with neutrals on its three neighbours, and spore B
\* in the bottom row, near A or with the last column inside its window
SporeA == <<<<1, 0>>, 5>>

WideUnits ==
    {<<SporeA>>} \cup
    UNION {{<<SporeA, <<b, 8>>>>, <<<<b, 8>>, SporeA>>} :
             b \in {<<0, 1>>, <<2, 1>>, <<WideWidth - 2, 1>>}}

\* neutrals on every tile but the spores' own and the free tiles F of the
\* last column
WideSnapshots ==
    {MapSnapshot(WideWidth, 2, u,
                 (WideTiles \ F) \ {u[i][1] : i \in DOMAIN u}, {}) :
        u \in WideUnits, F \in SUBSET {<<WideWidth - 1, 0>>, <<WideWidth - 1, 1>>}}

WideGetNextMove == GetNextMoveOn(WideSnapshots)

NextWide == WideGetNextMove \/ ReturnActions

SpecWide == Init /\ [][NextWide]_vars

\* a tile the target selector can return for the spore on tile `from`: on the
\* map, not visited, not blocked, not the spore's own
ExplorationTarget(t, from) ==
    /\ _in_bounds(game_message, t[1], t[2])
    /\ t \notin visited
    /\ t \notin BlockedForPath(game_message)
    /\ t # from

\* C14: in an output with the sacrifice move of a spore, no other spore's
\* movement action is aimed at an exploration target. (Every spore of these
\* maps has a neutral next to it, so a move-to action at an unvisited,
\* unblocked tile has its target from the target selector, not from the
\* random tile of the last resort.)
C14_SacrificeOnlyWithoutExploration ==
    (AtReturn /\ sacrificial_spore_id # NoId) =>
        \A i \in OwnedUnits : \A k \in MovementActionsOf(UnitId(i)) :
            (UnitId(i) # sacrificial_spore_id /\ actions[k].type = "SporeMoveToAction")
                => ~ExplorationTarget(actions[k].position,
                                      game_message.mySpores[i].position)

=============================================================================
